---- MODULE Spec2Model ----
(***************************************************************************)
(* A model of tools/biz-metadata-linter/biz_metadata_linter.py: the        *)
(* TypeRef resolver (TypeResolver) and the rule engine (BizMetadataLinter).*)
(*                                                                         *)
(* Strings that the code takes apart (code, parent_code, value_type) are   *)
(* sequences of lexemes.  A lexeme is a name segment [a-z][a-z0-9_]*, one  *)
(* of the punctuation marks "." "|" ">", a whitespace character " ", one   *)
(* of the prefixes "ref:", "json<object:", "json<array:", or "?", any      *)
(* character outside the grammar.  The empty string is << >>.  Fields the  *)
(* code only compares as a whole (tenant_id, object_type, data_class,      *)
(* status, source, name, unit) are plain strings, "" when empty.           *)
(***************************************************************************)
EXTENDS Integers, Sequences, FiniteSets, TLC

\* ------------------------------------------------------------------------
\* Constants of the program
\* ------------------------------------------------------------------------

OBJECT_TYPES == {"entity", "event", "relation", "document", "feature"}
DATA_CLASSES == {"attribute", "metric", "text", "object", "array", "identifier"}
STATUS == {"active", "deprecated"}
SOURCE == {"manual", "auto_mine", "api_sync"}

WS == " "
BAR == "|"
DOT == "."
REF == "ref:"
OBJ == "json<object:"
ARR == "json<array:"
CLOSE == ">"
JUNK == "?"

\* The lexemes that are name segments: each matches [a-z][a-z0-9_]*.
Segments ==
    {"string", "int", "decimal", "boolean", "date", "datetime",
     "object", "id", "item", "a", "b", "c", "d", "e", "f", "s", "x", "y", "z", "k",
     "p", "l"}

SCALAR_TYPES ==
    {<<"string">>, <<"int">>, <<"decimal">>, <<"boolean">>, <<"date">>, <<"datetime">>}
IDENTIFIER_ALLOWED == {<<"string">>, <<"int">>, <<"int", BAR, "string">>}

\* ------------------------------------------------------------------------
\* String operations of the Python runtime, on lexeme sequences
\* ------------------------------------------------------------------------

RECURSIVE lstrip(_)
lstrip(s) == IF s # << >> /\ Head(s) = WS THEN lstrip(Tail(s)) ELSE s

RECURSIVE rstrip(_)
rstrip(s) ==
    IF s # << >> /\ s[Len(s)] = WS THEN rstrip(SubSeq(s, 1, Len(s) - 1)) ELSE s

strip(s) == rstrip(lstrip(s))

Contains(s, x) == \E i \in 1..Len(s) : s[i] = x

\* str.split(sep): the pieces between the occurrences of sep; a string
\* without sep is one piece, and pieces may be empty.
RECURSIVE SplitFrom(_, _, _)
SplitFrom(s, sep, piece) ==
    IF s = << >> THEN <<piece>>
    ELSE IF Head(s) = sep THEN <<piece>> \o SplitFrom(Tail(s), sep, << >>)
    ELSE SplitFrom(Tail(s), sep, Append(piece, Head(s)))

split(s, sep) == SplitFrom(s, sep, << >>)

\* sep.join(parts)
RECURSIVE join(_, _)
join(sep, parts) ==
    IF parts = << >> THEN << >>
    ELSE IF Len(parts) = 1 THEN parts[1]
    ELSE parts[1] \o <<sep>> \o join(sep, Tail(parts))

startswith(s, prefix) ==
    /\ Len(prefix) <= Len(s)
    /\ SubSeq(s, 1, Len(prefix)) = prefix

\* ------------------------------------------------------------------------
\* Regular expressions
\* ------------------------------------------------------------------------

\* ^[a-z][a-z0-9_]*$
RE_TYPE_ATOM(s) == Len(s) = 1 /\ s[1] \in Segments

\* ^[a-z][a-z0-9_]*(\.[a-z][a-z0-9_]*)*$
RE_CODE(s) ==
    /\ Len(s) % 2 = 1
    /\ \A i \in 1..Len(s) : IF i % 2 = 1 THEN s[i] \in Segments ELSE s[i] = DOT

\* ^ref:(<code>)$ ; group 1 is TypeRefTarget.
RE_TYPEREF(s) == Len(s) >= 2 /\ s[1] = REF /\ RE_CODE(Tail(s))
TypeRefTarget(s) == Tail(s)

\* ^json<object:(<code>)>$ ; group 1 is ObjectSchemaRef.
RE_OBJECT(s) ==
    /\ Len(s) >= 3
    /\ s[1] = OBJ
    /\ s[Len(s)] = CLOSE
    /\ RE_CODE(SubSeq(s, 2, Len(s) - 1))
ObjectSchemaRef(s) == SubSeq(s, 2, Len(s) - 1)

\* ^json<array:(atom(\s*\|\s*atom)+|atom|object)>$
RE_ARRAY(s) ==
    /\ Len(s) >= 3
    /\ s[1] = ARR
    /\ s[Len(s)] = CLOSE
    /\ LET inner == SubSeq(s, 2, Len(s) - 1)
           parts == split(inner, BAR)
       IN  \/ RE_TYPE_ATOM(inner)
           \/ /\ Len(parts) >= 2
              /\ inner[1] # WS
              /\ inner[Len(inner)] # WS
              /\ \A i \in 1..Len(parts) : RE_TYPE_ATOM(strip(parts[i]))

\* ^.+\.id\.[a-z][a-z0-9_]*$
RE_IDENTIFIER_CODE(s) ==
    /\ Len(s) >= 5
    /\ s[Len(s) - 3] = DOT
    /\ s[Len(s) - 2] = "id"
    /\ s[Len(s) - 1] = DOT
    /\ s[Len(s)] \in Segments

\* ------------------------------------------------------------------------
\* TypeResolver: union helpers
\* ------------------------------------------------------------------------

\* [p.strip() for p in expr.split("|")]
StripAll(parts) == [i \in 1..Len(parts) |-> strip(parts[i])]

\* None is << >>: a split with "|" in expr always has two parts or more.
split_union_terms(expr) ==
    IF ~Contains(expr, BAR) THEN << >>
    ELSE LET parts == StripAll(split(expr, BAR))
         IN  IF \E i \in 1..Len(parts) : parts[i] = << >> THEN << >> ELSE parts

canonical_union(expr) ==
    LET terms == split_union_terms(expr)
    IN  IF terms = << >> THEN expr ELSE join(BAR, terms)

is_valid_value_type_expr(vt0) ==
    LET vt == strip(vt0)
        vt_canon == canonical_union(vt)
        terms == split_union_terms(vt)
    IN  IF vt_canon \in SCALAR_TYPES THEN TRUE
        ELSE IF vt_canon \in IDENTIFIER_ALLOWED THEN TRUE
        ELSE IF RE_OBJECT(vt) THEN TRUE
        ELSE IF RE_ARRAY(vt) THEN TRUE
        ELSE IF RE_TYPEREF(vt) THEN TRUE
        ELSE IF Contains(vt, BAR)
             THEN IF terms = << >> THEN FALSE
                  ELSE \A i \in 1..Len(terms) :
                          \/ strip(terms[i]) \in SCALAR_TYPES
                          \/ RE_TYPE_ATOM(strip(terms[i]))
                          \/ RE_TYPEREF(strip(terms[i]))
        ELSE FALSE

\* ------------------------------------------------------------------------
\* Records
\* ------------------------------------------------------------------------

\* Python's None, for an Optional[ResolvedType], Optional[Violation] or a
\* missing index entry.
None == [kind |-> "None"]

\* Violation(severity, rule_id, message, tenant_id, code, field, value).
\* The message is modelled by its variable part, a sequence of codes.
Violation(severity, rule_id, message, tenant_id, code, field, value) ==
    [kind |-> "Violation", severity |-> severity, rule_id |-> rule_id,
     message |-> message, tenant_id |-> tenant_id, code |-> code,
     field |-> field, value |-> value]

ResolvedType(raw, resolved, canonical_code, chain) ==
    [kind |-> "ResolvedType", raw |-> raw, resolved |-> resolved,
     canonical_code |-> canonical_code, chain |-> chain]

\* dict.get((tenant_id, code))
IndexGetAnyTenant(index, tenant_id, code) ==
    IF \E key \in DOMAIN index : key[2] = code
    THEN index[CHOOSE key \in DOMAIN index : key[2] = code]
    ELSE None
IndexGet(index, tenant_id, code) ==
    IF <<tenant_id, code>> \in DOMAIN index THEN index[<<tenant_id, code>>] ELSE None

\* ------------------------------------------------------------------------
\* TypeResolver._resolve_single_ref
\* ------------------------------------------------------------------------

\* What a resolver call returns: the pair (resolved, vio), and with it the
\* `seen` list of every single-reference walk made (walks), which the code
\* keeps in a local variable.
Returned(resolved, vio, walks) == [resolved |-> resolved, vio |-> vio, walks |-> walks]

\* if depth > self.max_depth
TooDeepLate(depth, max_depth) == depth > max_depth + 1
TooDeepOffByOne(depth, max_depth) == depth >= max_depth
TooDeep(depth, max_depth) == depth > max_depth

\* The checks on the row found for `current`: the rule_id of the first one
\* that fails, "" when the row is a target a reference may point at.
TargetFailureActiveFirst(row) ==
    IF row = None THEN "TYPE_REF_NOT_FOUND"
    ELSE IF row.status # "active" THEN "TYPE_REF_TARGET_NOT_ACTIVE"
    ELSE IF row.object_type # "feature" THEN "TYPE_REF_TARGET_NOT_FEATURE"
    ELSE IF strip(row.value_type) = << >> THEN "TYPE_REF_TARGET_NO_TYPE"
    ELSE ""
TargetFailure(row) ==
    IF row = None THEN "TYPE_REF_NOT_FOUND"
    ELSE IF row.object_type # "feature" THEN "TYPE_REF_TARGET_NOT_FEATURE"
    ELSE IF row.status # "active" THEN "TYPE_REF_TARGET_NOT_ACTIVE"
    ELSE IF strip(row.value_type) = << >> THEN "TYPE_REF_TARGET_NO_TYPE"
    ELSE ""

\* One iteration of the `while True` loop, entered with depth already
\* incremented.
RECURSIVE RefWalk(_, _, _, _, _, _, _)
RefWalk(index, max_depth, tenant_id, vt, current, seen, depth) ==
    IF TooDeep(depth, max_depth)
    THEN Returned(None,
                  Violation("ERROR", "TYPE_REF_TOO_DEEP", Append(seen, current),
                            tenant_id, current, "value_type", vt),
                  <<seen>>)
    ELSE IF \E i \in 1..Len(seen) : seen[i] = current
    THEN Returned(None,
                  Violation("ERROR", "TYPE_REF_CYCLE", Append(seen, current),
                            tenant_id, current, "value_type", vt),
                  <<seen>>)
    ELSE LET seen1 == Append(seen, current)
             row == IndexGet(index, tenant_id, current)
             inner == strip(row.value_type)
         IN  IF TargetFailure(row) # ""
             THEN Returned(None,
                           Violation("ERROR", TargetFailure(row), <<current>>,
                                     tenant_id, current, "value_type", vt),
                           <<seen1>>)
             ELSE IF RE_TYPEREF(inner)
             THEN RefWalk(index, max_depth, tenant_id, vt, TypeRefTarget(inner),
                          seen1, depth + 1)
             ELSE Returned(ResolvedType(vt, inner, row.code, seen1), None, <<seen1>>)

\* depth = 0, and the first `depth += 1` of the loop
resolve_single_ref_late_count(index, max_depth, tenant_id, value_type) ==
    LET vt == strip(value_type)
    IN  IF ~RE_TYPEREF(vt)
        THEN Returned(ResolvedType(vt, vt, << >>, << >>), None, << >>)
        ELSE RefWalk(index, max_depth, tenant_id, vt, TypeRefTarget(vt), << >>, 0)
resolve_single_ref(index, max_depth, tenant_id, value_type) ==
    LET vt == strip(value_type)
    IN  IF ~RE_TYPEREF(vt)
        THEN Returned(ResolvedType(vt, vt, << >>, << >>), None, << >>)
        ELSE RefWalk(index, max_depth, tenant_id, vt, TypeRefTarget(vt), << >>, 1)

\* ------------------------------------------------------------------------
\* TypeResolver.resolve
\* ------------------------------------------------------------------------

\* flattened: every resolved term, a union expanded into its terms.
FlattenNothing(resolved_terms) == StripAll(resolved_terms)
RECURSIVE Flatten(_)
Flatten(resolved_terms) ==
    IF resolved_terms = << >> THEN << >>
    ELSE LET term == Head(resolved_terms)
             inner_terms == split_union_terms(term)
         IN  (IF inner_terms = << >> THEN <<strip(term)>> ELSE StripAll(inner_terms))
             \o Flatten(Tail(resolved_terms))

\* deduped: the first occurrence of every non-empty term, in order.
RECURSIVE DedupeBreak(_, _, _)
DedupeBreak(flattened, seen_terms, deduped) ==
    IF flattened = << >> THEN deduped
    ELSE LET t == strip(Head(flattened))
         IN  IF t = << >> \/ t \in seen_terms
             THEN deduped
             ELSE DedupeBreak(Tail(flattened), seen_terms \cup {t}, Append(deduped, t))
RECURSIVE Dedupe(_, _, _)
Dedupe(flattened, seen_terms, deduped) ==
    IF flattened = << >> THEN deduped
    ELSE LET t == strip(Head(flattened))
         IN  IF t = << >> \/ t \in seen_terms
             THEN Dedupe(Tail(flattened), seen_terms, deduped)
             ELSE Dedupe(Tail(flattened), seen_terms \cup {t}, Append(deduped, t))

\* The loop over union_terms, from term i on.
RECURSIVE ResolveUnion(_, _, _, _, _, _, _, _)
ResolveUnion(index, max_depth, tenant_id, vt, union_terms, i, resolved_terms, walks) ==
    IF i > Len(union_terms)
    THEN LET resolved_expr == join(BAR, Dedupe(Flatten(resolved_terms), {}, << >>))
         IN  Returned(ResolvedType(vt, canonical_union(resolved_expr), << >>, << >>),
                      None, walks)
    ELSE LET term == union_terms[i]
         IN  IF RE_TYPEREF(term)
             THEN LET got == resolve_single_ref(index, max_depth, tenant_id, term)
                  IN  IF got.vio # None
                      THEN Returned(None,
                                    Violation(got.vio.severity, got.vio.rule_id,
                                              got.vio.message, got.vio.tenant_id,
                                              got.vio.code, got.vio.field, vt),
                                    walks \o got.walks)
                      ELSE ResolveUnion(index, max_depth, tenant_id, vt, union_terms,
                                        i + 1,
                                        Append(resolved_terms, strip(got.resolved.resolved)),
                                        walks \o got.walks)
             ELSE ResolveUnion(index, max_depth, tenant_id, vt, union_terms, i + 1,
                               Append(resolved_terms, term), walks)

resolve(index, max_depth, tenant_id, value_type) ==
    LET vt == strip(value_type)
        union_terms == split_union_terms(vt)
    IN  IF vt = << >> THEN Returned(None, None, << >>)
        ELSE IF RE_TYPEREF(vt) THEN resolve_single_ref(index, max_depth, tenant_id, vt)
        ELSE IF union_terms # << >>
        THEN ResolveUnion(index, max_depth, tenant_id, vt, union_terms, 1, << >>, << >>)
        ELSE Returned(ResolvedType(vt, canonical_union(vt), << >>, << >>), None, << >>)

\* ------------------------------------------------------------------------
\* Row and the state of a BizMetadataLinter
\* ------------------------------------------------------------------------

\* Row(...): the normalised view of one input record (`raw` is not read by
\* any rule and is left out).
Row(tenant_id, version, code, name, object_type, parent_code, data_class, value_type, unit, status, source) ==
    [tenant_id |-> tenant_id, version |-> version, code |-> code, name |-> name,
     description |-> "", object_type |-> object_type, parent_code |-> parent_code,
     data_class |-> data_class, value_type |-> value_type, unit |-> unit,
     status |-> status, source |-> source]

VARIABLES
    rows,                 \* the batch handed to the constructor (self.rows)
    mode,                 \* the mode handed to the constructor (self.mode)
    max_ref_depth,        \* the max_ref_depth handed to the constructor
    engine,               \* "new" | "ready" | "ValueError"
    rows_by_tenant_code,  \* the (tenant_id, code) -> Row index
    pc,                   \* where lint() stands
    vios,                 \* the list lint() is building
    call,                 \* the last direct resolver call and what it returned
    script,               \* what the caller does: "once" | "replay" | "recall"
    before,               \* the caller's record of an earlier lint() run
    first                 \* the caller's record of its first resolver call

vars ==
    <<rows, mode, max_ref_depth, engine, rows_by_tenant_code, pc, vios, call,
      script, before, first>>

NoCall == [kind |-> "NoCall"]
NoRun == [kind |-> "NoRun"]

\* The run of lint() that has just returned, as the caller keeps it.
Run == [kind |-> "Run", rows |-> rows, mode |-> mode, vios |-> vios]

\* A plain string as a lexeme sequence (for Violation.value and messages).
Str(s) == IF s = "" THEN << >> ELSE <<s>>

\* A violation as lint() holds it, with the check and the row iteration
\* (1-based position in self.rows) that appended it.
Emitted(vio, check, i) == [vio |-> vio, check |-> check, row |-> i]

RECURSIVE ConcatCutShort(_)
ConcatCutShort(seqs) ==
    IF seqs = << >> THEN << >>
    ELSE IF Head(seqs) # << >> THEN Head(seqs)
    ELSE ConcatCutShort(Tail(seqs))
RECURSIVE Concat(_)
Concat(seqs) == IF seqs = << >> THEN << >> ELSE Head(seqs) \o Concat(Tail(seqs))

\* ------------------------------------------------------------------------
\* BizMetadataLinter.__init__
\* ------------------------------------------------------------------------

DictPut(index, key, value) ==
    [k \in DOMAIN index \cup {key} |-> IF k = key THEN value ELSE index[k]]

\* for r in self.rows: if r.tenant_id and r.code: index[(tenant_id, code)] = r
RECURSIVE IndexRowsUnguarded(_, _, _)
IndexRowsUnguarded(rs, i, index) ==
    IF i > Len(rs) THEN index
    ELSE IndexRowsUnguarded(rs, i + 1,
                            DictPut(index, <<rs[i].tenant_id, rs[i].code>>, rs[i]))
RECURSIVE IndexRows(_, _, _)
IndexRows(rs, i, index) ==
    IF i > Len(rs) THEN index
    ELSE IF rs[i].tenant_id # "" /\ rs[i].code # << >>
    THEN IndexRows(rs, i + 1, DictPut(index, <<rs[i].tenant_id, rs[i].code>>, rs[i]))
    ELSE IndexRows(rs, i + 1, index)

EmptyDict == [k \in {} |-> None]

ConstructAnyMode ==
    /\ engine = "new"
    /\ engine' = "ready"
    /\ rows_by_tenant_code' = IndexRows(rows, 1, EmptyDict)
    /\ UNCHANGED <<rows, mode, max_ref_depth, pc, vios, call, script, before, first>>
Construct ==
    /\ engine = "new"
    /\ IF mode \notin {"import", "publish"}
       THEN /\ engine' = "ValueError"
            /\ UNCHANGED rows_by_tenant_code
       ELSE /\ engine' = "ready"
            /\ rows_by_tenant_code' = IndexRows(rows, 1, EmptyDict)
    /\ UNCHANGED <<rows, mode, max_ref_depth, pc, vios, call, script, before, first>>

\* self.resolver.resolve(tenant_id, value_type)
Resolver(tenant_id, value_type) ==
    resolve(rows_by_tenant_code, max_ref_depth, tenant_id, value_type)

\* ------------------------------------------------------------------------
\* The checks of lint(), each the list of violations of one _check_* method
\* ------------------------------------------------------------------------

RequiredFields == <<"tenant_id", "code", "name", "object_type", "status", "source">>

\* getattr(r, field), as a lexeme sequence
FieldValue(r, field) ==
    IF field = "code" THEN r.code ELSE Str(r[field])

check_required_and_enums ==
    Concat([i \in 1..Len(rows) |->
        LET r == rows[i]
            E(rule_id, field, value) ==
                <<Emitted(Violation("ERROR", rule_id, <<Str(field)>>, r.tenant_id,
                                    r.code, field, value), "required_and_enums", i)>>
        IN  Concat([f \in 1..Len(RequiredFields) |->
                IF FieldValue(r, RequiredFields[f]) = << >>
                THEN E("BASIC_REQUIRED_MISSING", RequiredFields[f], << >>)
                ELSE << >>])
            \o (IF r.version <= 0
                THEN E("BASIC_VERSION_INVALID", "version", <<ToString(r.version)>>)
                ELSE << >>)
            \o (IF r.object_type # "" /\ r.object_type \notin OBJECT_TYPES
                THEN E("ENUM_OBJECT_TYPE", "object_type", Str(r.object_type))
                ELSE << >>)
            \o (IF r.status # "" /\ r.status \notin STATUS
                THEN E("ENUM_STATUS", "status", Str(r.status))
                ELSE << >>)
            \o (IF r.source # "" /\ r.source \notin SOURCE
                THEN E("ENUM_SOURCE", "source", Str(r.source))
                ELSE << >>)
            \o (IF r.data_class # "" /\ r.data_class \notin DATA_CLASSES
                THEN E("ENUM_DATA_CLASS", "data_class", Str(r.data_class))
                ELSE << >>)])

check_code_format ==
    Concat([i \in 1..Len(rows) |->
        LET r == rows[i]
        IN  IF r.code # << >> /\ ~RE_CODE(r.code)
            THEN <<Emitted(Violation("ERROR", "CODE_FORMAT", << >>, r.tenant_id,
                                     r.code, "code", r.code), "code_format", i)>>
            ELSE << >>])

\* The loop of _check_uniqueness from row i on, with the keys seen so far.
RECURSIVE UniquenessFrom(_, _)
UniquenessFrom(i, seen) ==
    IF i > Len(rows) THEN << >>
    ELSE LET r == rows[i]
             key == <<r.tenant_id, r.code>>
         IN  IF r.tenant_id # "" /\ r.code # << >>
             THEN IF key \in seen
                  THEN <<Emitted(Violation("ERROR", "UNIQUE_TENANT_CODE", << >>,
                                           r.tenant_id, r.code, "code", r.code),
                                 "uniqueness", i)>>
                       \o UniquenessFrom(i + 1, seen)
                  ELSE UniquenessFrom(i + 1, seen \cup {key})
             ELSE UniquenessFrom(i + 1, seen)

check_uniqueness == UniquenessFrom(1, {})

\* if r.object_type != "feature"
IsKnownNonFeature(r) == r.object_type \in OBJECT_TYPES \ {"feature"}
IsNonFeature(r) == r.object_type # "feature"

check_scope_and_feature_fields ==
    Concat([i \in 1..Len(rows) |->
        LET r == rows[i]
        IN  IF IsNonFeature(r)
            THEN IF r.data_class # "" \/ r.value_type # << >> \/ r.unit # ""
                 THEN <<Emitted(Violation("ERROR", "SCOPE_NON_FEATURE_HAS_TYPE", << >>,
                                          r.tenant_id, r.code,
                                          "data_class/value_type/unit",
                                          Str(r.data_class) \o <<BAR>> \o r.value_type
                                              \o <<BAR>> \o Str(r.unit)),
                                "scope_and_feature_fields", i)>>
                 ELSE << >>
            ELSE IF r.data_class = "" \/ r.value_type = << >>
                 THEN <<Emitted(Violation("ERROR", "SCOPE_FEATURE_MISSING_TYPE", << >>,
                                          r.tenant_id, r.code, "data_class/value_type",
                                          Str(r.data_class) \o <<BAR>> \o r.value_type),
                                "scope_and_feature_fields", i)>>
                 ELSE << >>])

check_types_and_ref ==
    Concat([i \in 1..Len(rows) |->
        LET r == rows[i]
            got == Resolver(r.tenant_id, r.value_type)
            E(v) == <<Emitted(v, "types_and_ref", i)>>
        IN  IF r.object_type # "feature" THEN << >>
            ELSE IF r.value_type # << >> /\ ~is_valid_value_type_expr(r.value_type)
            THEN E(Violation("ERROR", "TYPE_SYNTAX_INVALID", <<r.value_type>>,
                             r.tenant_id, r.code, "value_type", r.value_type))
            ELSE IF got.vio # None
            THEN E(Violation(got.vio.severity, got.vio.rule_id, got.vio.message,
                             r.tenant_id, r.code, got.vio.field, got.vio.value))
            ELSE IF got.resolved # None /\ ~is_valid_value_type_expr(got.resolved.resolved)
            THEN E(Violation("ERROR", "TYPE_REF_RESOLVED_INVALID",
                             <<got.resolved.resolved>>, r.tenant_id, r.code,
                             "value_type", r.value_type))
            ELSE << >>])

check_unit_rules ==
    Concat([i \in 1..Len(rows) |->
        LET r == rows[i]
        IN  IF r.object_type # "feature" THEN << >>
            ELSE IF r.unit # "" /\ r.data_class # "metric"
            THEN <<Emitted(Violation("ERROR", "UNIT_NOT_ALLOWED", << >>, r.tenant_id,
                                     r.code, "unit", Str(r.unit)), "unit_rules", i)>>
            ELSE << >>])

\* The normalisation of the resolved value_type in _check_identifier_rules:
\* a union over {int, string} is rewritten to its order-free form.
IdentifierNotNormalised(resolved_vt0) == canonical_union(strip(resolved_vt0))
IdentifierNormalised(resolved_vt0) ==
    LET resolved_vt == canonical_union(strip(resolved_vt0))
        union_terms == split_union_terms(resolved_vt)
        term_set == {strip(union_terms[j]) : j \in 1..Len(union_terms)}
    IN  IF union_terms # << >> /\ term_set \subseteq {<<"int">>, <<"string">>}
           /\ term_set # {}
        THEN IF term_set = {<<"int">>, <<"string">>} THEN <<"int", BAR, "string">>
             ELSE IF term_set = {<<"int">>} THEN <<"int">>
             ELSE IF term_set = {<<"string">>} THEN <<"string">>
             ELSE resolved_vt
        ELSE resolved_vt

check_identifier_rules ==
    Concat([i \in 1..Len(rows) |->
        LET r == rows[i]
            got == Resolver(r.tenant_id, r.value_type)
            resolved_vt ==
                IdentifierNormalised(IF got.resolved # None THEN got.resolved.resolved
                                     ELSE r.value_type)
            E(rule_id, field, value) ==
                <<Emitted(Violation("ERROR", rule_id, << >>, r.tenant_id, r.code,
                                    field, value), "identifier_rules", i)>>
        IN  IF r.object_type # "feature" \/ r.data_class # "identifier" THEN << >>
            ELSE IF got.vio # None
            THEN <<Emitted(Violation(got.vio.severity, got.vio.rule_id, got.vio.message,
                                     r.tenant_id, r.code, "value_type", r.value_type),
                           "identifier_rules", i)>>
            ELSE (IF resolved_vt \notin IDENTIFIER_ALLOWED
                  THEN E("IDENTIFIER_VALUE_TYPE", "value_type", r.value_type)
                  ELSE << >>)
                 \o (IF r.unit # ""
                     THEN E("IDENTIFIER_UNIT_NOT_EMPTY", "unit", Str(r.unit))
                     ELSE << >>)
                 \o (IF ~RE_IDENTIFIER_CODE(r.code)
                     THEN E("IDENTIFIER_CODE_PATTERN", "code", r.code)
                     ELSE << >>)])

check_hierarchy ==
    Concat([i \in 1..Len(rows) |->
        LET r == rows[i]
            parent == IndexGet(rows_by_tenant_code, r.tenant_id, r.parent_code)
            E(rule_id) ==
                <<Emitted(Violation("ERROR", rule_id, <<r.parent_code>>, r.tenant_id,
                                    r.code, "parent_code", r.parent_code),
                          "hierarchy", i)>>
        IN  IF r.parent_code = << >> THEN << >>
            ELSE IF parent = None THEN E("HIERARCHY_PARENT_MISSING")
            ELSE IF ~startswith(r.code, r.parent_code \o <<DOT>>)
            THEN E("HIERARCHY_PARENT_PREFIX")
            ELSE << >>])

\* tenant_codes.get(tenant_id, set()): the codes of all rows of the tenant
TenantCodes(tenant_id) ==
    {rows[j].code : j \in {k \in 1..Len(rows) : rows[k].tenant_id = tenant_id}}

check_completeness ==
    Concat([i \in 1..Len(rows) |->
        LET r == rows[i]
            needs_object_check == r.data_class = "object"
            needs_array_check == r.data_class = "array"
            got == Resolver(r.tenant_id, r.value_type)
            vt == IF got.resolved # None THEN got.resolved.resolved ELSE r.value_type
            E(rule_id, message) ==
                <<Emitted(Violation("ERROR", rule_id, message, r.tenant_id, r.code,
                                    "value_type", r.value_type), "completeness", i)>>
        IN  IF r.object_type # "feature" THEN << >>
            ELSE IF ~(needs_object_check \/ needs_array_check) THEN << >>
            ELSE IF got.vio # None
            THEN <<Emitted(Violation(got.vio.severity, got.vio.rule_id, got.vio.message,
                                     r.tenant_id, r.code, "value_type", r.value_type),
                           "completeness", i)>>
            ELSE (IF /\ needs_object_check
                     /\ RE_OBJECT(vt)
                     /\ ~\E c \in TenantCodes(r.tenant_id) :
                            startswith(c, ObjectSchemaRef(vt) \o <<DOT>>)
                  THEN E("COMPLETENESS_OBJECT_CHILDREN_MISSING", <<ObjectSchemaRef(vt)>>)
                  ELSE << >>)
                 \o (IF /\ needs_array_check
                        /\ vt = <<ARR, "object", CLOSE>>
                        /\ ~\E c \in TenantCodes(r.tenant_id) :
                               startswith(c, r.code \o <<DOT, "item", DOT>>)
                     THEN E("COMPLETENESS_ARRAY_OBJECT_ITEMS_MISSING", << >>)
                     ELSE << >>)])

\* ------------------------------------------------------------------------
\* BizMetadataLinter.lint, one action per statement of its body
\* ------------------------------------------------------------------------

\* vios.extend(<check>) at position `at`, then on to `next`.
ExtendInFront(at, out, next) ==
    /\ engine = "ready"
    /\ pc = at
    /\ vios' = out \o vios
    /\ pc' = next
    /\ UNCHANGED <<rows, mode, max_ref_depth, engine, rows_by_tenant_code, call,
                   script, before, first>>
Extend(at, out, next) ==
    /\ engine = "ready"
    /\ pc = at
    /\ vios' = vios \o out
    /\ pc' = next
    /\ UNCHANGED <<rows, mode, max_ref_depth, engine, rows_by_tenant_code, call,
                   script, before, first>>

\* vios: List[Violation] = []   (a "replay" caller may call lint() a second
\* time on the same engine, keeping the list of the first run)
LintBegin ==
    /\ engine = "ready"
    /\ \/ pc = "idle"
       \/ pc = "done" /\ script = "replay" /\ before = NoRun
    /\ vios' = << >>
    /\ pc' = "required_and_enums"
    /\ call' = NoCall
    /\ before' = IF pc = "done" THEN Run ELSE before
    /\ UNCHANGED <<rows, mode, max_ref_depth, engine, rows_by_tenant_code, script, first>>

CheckRequiredAndEnums ==
    Extend("required_and_enums", check_required_and_enums, "code_format")

CheckCodeFormat == Extend("code_format", check_code_format, "uniqueness")

CheckUniqueness == Extend("uniqueness", check_uniqueness, "scope_and_feature_fields")

CheckScopeAndFeatureFields ==
    Extend("scope_and_feature_fields", check_scope_and_feature_fields, "types_and_ref")

CheckTypesAndRef == Extend("types_and_ref", check_types_and_ref, "unit_rules")

CheckUnitRules == Extend("unit_rules", check_unit_rules, "identifier_rules")

CheckIdentifierRules == Extend("identifier_rules", check_identifier_rules, "hierarchy")

\* ... and `if self.mode == "publish"` decides what follows.
CheckHierarchyThenCompleteness == Extend("hierarchy", check_hierarchy, "completeness")
CheckHierarchy ==
    Extend("hierarchy", check_hierarchy,
           IF mode = "publish" THEN "completeness" ELSE "return")

CheckCompleteness == Extend("completeness", check_completeness, "return")

\* return vios
LintReturn ==
    /\ engine = "ready"
    /\ pc = "return"
    /\ pc' = "done"
    /\ first' = IF first = NoCall THEN first ELSE [first EXCEPT !.linted = TRUE]
    /\ UNCHANGED <<rows, mode, max_ref_depth, engine, rows_by_tenant_code, vios, call,
                   script, before>>

\* linter = BizMetadataLinter(rs, mode=m): a "replay" caller builds one more
\* engine, over the same batch or over the rows of one tenant of it, in
\* either mode, keeping the list the first engine returned.
OfTenant(rs, tenant_id) == SelectSeq(rs, LAMBDA r : r.tenant_id = tenant_id)

Replays == {rows} \cup {OfTenant(rows, rows[i].tenant_id) : i \in 1..Len(rows)}

NewEngine(rs, m) ==
    /\ engine = "ready"
    /\ pc = "done"
    /\ script = "replay"
    /\ before = NoRun
    /\ rows' = rs
    /\ mode' = m
    /\ engine' = "new"
    /\ rows_by_tenant_code' = EmptyDict
    /\ pc' = "idle"
    /\ vios' = << >>
    /\ call' = NoCall
    /\ before' = Run
    /\ UNCHANGED <<max_ref_depth, script, first>>

\* ------------------------------------------------------------------------
\* A direct call of linter.resolver.resolve(tenant_id, value_type).  The
\* engine is synchronous: a caller reaches the resolver before or after a
\* lint() run, never inside one.
\* ------------------------------------------------------------------------

Tenants == {"t1", "t2"}

\* A "recall" caller keeps its first call, with the batch and the index as
\* they were before it, and notes whether it has since resolved something
\* else and whether a lint() run has returned since.
ResolveForgetting(tenant_id, value_type) ==
    /\ engine = "ready"
    /\ pc \in {"idle", "done"}
    /\ call' = [kind |-> "Call", tenant_id |-> tenant_id, value_type |-> value_type,
                ret |-> Resolver(tenant_id, value_type)]
    /\ first' = IF script # "recall" THEN first
                ELSE IF first = NoCall
                THEN [kind |-> "Call", tenant_id |-> tenant_id, value_type |-> value_type,
                      ret |-> Resolver(tenant_id, value_type), rows |-> rows,
                      index |-> rows_by_tenant_code, other |-> FALSE, linted |-> FALSE]
                ELSE [first EXCEPT !.other = @ \/ first.tenant_id # tenant_id
                                              \/ first.value_type # value_type]
    /\ rows_by_tenant_code' = EmptyDict
    /\ UNCHANGED <<rows, mode, max_ref_depth, engine, pc, vios, script, before>>
Resolve(tenant_id, value_type) ==
    /\ engine = "ready"
    /\ pc \in {"idle", "done"}
    /\ call' = [kind |-> "Call", tenant_id |-> tenant_id, value_type |-> value_type,
                ret |-> Resolver(tenant_id, value_type)]
    /\ first' = IF script # "recall" THEN first
                ELSE IF first = NoCall
                THEN [kind |-> "Call", tenant_id |-> tenant_id, value_type |-> value_type,
                      ret |-> Resolver(tenant_id, value_type), rows |-> rows,
                      index |-> rows_by_tenant_code, other |-> FALSE, linted |-> FALSE]
                ELSE [first EXCEPT !.other = @ \/ first.tenant_id # tenant_id
                                              \/ first.value_type # value_type]
    /\ UNCHANGED <<rows, mode, max_ref_depth, engine, rows_by_tenant_code, pc, vios,
                   script, before>>

\* The expressions a caller resolves: the value_type of the rows at hand.
ResolveInputs == {rows[i].value_type : i \in 1..Len(rows)}

\* ------------------------------------------------------------------------
\* Inputs
\* ------------------------------------------------------------------------

MaxDepth == 3
DefaultMaxRefDepth == 5

Names == <<"a", "b", "c", "d", "e", "f">>
ChainCode(i) == <<Names[i]>>
RefTo(code) == <<REF>> \o code

Feature(tenant_id, code, data_class, value_type) ==
    Row(tenant_id, 1, code, "n", "feature", << >>, data_class, value_type, "",
        "active", "manual")

\* A chain c1 -> c2 -> ... -> cn of feature rows, cn.value_type = end, with
\* the row at position `at` (0: none) spoilt as `defect` says.
Spoil(r, defect) ==
    IF defect = "entity" THEN [r EXCEPT !.object_type = "entity"]
    ELSE IF defect = "deprecated" THEN [r EXCEPT !.status = "deprecated"]
    ELSE IF defect = "entity_deprecated"
         THEN [r EXCEPT !.object_type = "entity", !.status = "deprecated"]
    ELSE IF defect = "deprecated_notype"
         THEN [r EXCEPT !.status = "deprecated", !.value_type = << >>]
    ELSE IF defect = "notype" THEN [r EXCEPT !.value_type = << >>]
    ELSE r

Defects == {"entity", "deprecated", "entity_deprecated", "deprecated_notype", "notype"}

Chain(n, end, at, defect) ==
    [i \in 1..n |->
        LET r == Feature("t1", ChainCode(i), "attribute",
                         IF i < n THEN RefTo(ChainCode(i + 1)) ELSE end)
        IN  IF i = at THEN Spoil(r, defect) ELSE r]

ChainEnds(n) ==
    {<<"int">>, <<"int", BAR, "string">>, RefTo(<<"x">>)}
        \cup {RefTo(ChainCode(j)) : j \in 1..n}

ChainBatches ==
    UNION {{Chain(n, end, 0, "none") : end \in ChainEnds(n)}
               \cup {Chain(n, <<"int">>, at, defect) : at \in 1..n, defect \in Defects}
           : n \in 1..(MaxDepth + 1)}

InitChains ==
    /\ rows \in ChainBatches
    /\ mode \in {"import", "publish"}
    /\ max_ref_depth \in 1..MaxDepth

\* Unions: rows x and y that union terms refer to (z is in no batch), and a
\* row u whose value_type is a union of up to MaxTerms terms.
MaxTerms == 2

UnionTerms == {RefTo(<<"x">>), RefTo(<<"y">>), RefTo(<<"z">>), <<"int">>, <<"string">>}

RECURSIVE UnionsOf(_, _)
UnionsOf(k, sep) ==
    IF k = 1 THEN UnionTerms
    ELSE {t \o sep \o u : t \in UnionTerms, u \in UnionsOf(k - 1, sep)}

UnionExprs ==
    UNION {UnionsOf(k, <<BAR>>) \cup UnionsOf(k, <<WS, BAR, WS>>) : k \in 2..MaxTerms}

TargetTypesX ==
    {<<"int">>, <<"int", BAR, "string">>, <<"string", WS, BAR, WS, "int">>,
     <<"int", BAR, BAR, "int">>, <<REF, "y", BAR, "int">>, RefTo(<<"y">>)}

TargetTypesY == {<<"string">>, <<"int", BAR, "a">>}

UnionBatches ==
    {<<Feature("t1", <<"x">>, "attribute", tx), Feature("t1", <<"y">>, "attribute", ty),
       Feature("t1", <<"a">>, "attribute", u)>> :
        tx \in TargetTypesX, ty \in TargetTypesY, u \in UnionExprs}

InitUnions ==
    /\ rows \in UnionBatches
    /\ mode = "import"
    /\ max_ref_depth = DefaultMaxRefDepth

\* Identifier rows: the value_type written on the row itself or reached
\* through a reference to row y.
IdentifierTypes ==
    {<<"int">>, <<"string">>, <<"decimal">>, <<"int", BAR, "string">>,
     <<"string", BAR, "int">>, <<"int", BAR, "int">>, <<"string", WS, BAR, "string">>,
     <<"int", BAR, "string", BAR, "int">>, <<"int", BAR, "decimal">>, <<"int", BAR>>,
     <<ARR, "int", CLOSE>>, << >>}

IdentifierCodes == {<<"x", DOT, "id", DOT, "k">>, <<"x">>}

IdentifierBatches ==
    {<<Feature("t1", c, "identifier", t)>> : c \in IdentifierCodes, t \in IdentifierTypes}
        \cup {<<Feature("t1", c, "identifier", RefTo(<<"y">>)),
                Feature("t1", <<"y">>, "attribute", t)>> :
                  c \in IdentifierCodes, t \in IdentifierTypes}

InitIdentifiers ==
    /\ rows \in IdentifierBatches
    /\ mode \in {"import", "publish"}
    /\ max_ref_depth = DefaultMaxRefDepth

\* Batches of up to MaxRows rows, in any order and with repetition, from a
\* pool of rows: parents and children, object and array schemas, rows of
\* other tenants and of no tenant, rows with malformed fields.
MaxRows == 2

Entity(tenant_id, code) ==
    Row(tenant_id, 1, code, "n", "entity", << >>, "", << >>, "", "active", "manual")

Child(r, parent_code) == [r EXCEPT !.parent_code = parent_code]

RowPool ==
    {Entity("t1", <<"a">>),
     Entity("t2", <<"a">>),
     Entity("", <<"a">>),
     Child(Feature("t1", <<"a", DOT, "b">>, "attribute", <<"string">>), <<"a">>),
     Child(Feature("t1", <<"c">>, "metric", <<"decimal">>), <<"a">>),
     Child(Feature("", <<"a", DOT, "b">>, "attribute", <<"string">>), <<"a">>),
     Feature("t1", <<"s">>, "object", <<OBJ, "s", CLOSE>>),
     Feature("t1", <<"s", DOT, "x">>, "object", <<OBJ, "s", CLOSE>>),
     Feature("t2", <<"s", DOT, "x">>, "attribute", <<"int">>),
     Feature("t1", <<"d">>, "object", RefTo(<<"s">>)),
     Feature("t1", <<"s">>, "array", <<ARR, "object", CLOSE>>),
     Feature("t1", <<"s", DOT, "item", DOT, "x">>, "text", <<"string">>),
     Feature("t1", <<"x", DOT, "id", DOT, "k">>, "identifier", <<REF, "a", BAR, JUNK>>),
     Feature("t1", <<"e">>, "object", <<REF, "z", BAR, OBJ, "s", CLOSE>>),
     Row("t1", 0, <<"e", JUNK>>, "", "feature", << >>, "attribute", <<JUNK>>, "kg",
         "retired", "manual"),
     Row("t1", 1, <<"f">>, "n", "event", << >>, "metric", << >>, "", "deprecated", "")}

RECURSIVE SeqsOf(_, _)
SeqsOf(S, n) ==
    IF n = 0 THEN {<< >>}
    ELSE LET shorter == SeqsOf(S, n - 1)
         IN  shorter \cup {Append(q, r) : q \in {p \in shorter : Len(p) = n - 1}, r \in S}

InitPool ==
    /\ rows \in SeqsOf(RowPool, MaxRows)
    /\ mode \in {"import", "publish", "draft"}
    /\ max_ref_depth = DefaultMaxRefDepth

\* Scope: one row (alone or twice in the batch) of every kind of object_type,
\* with and without each of the three type fields; every kind of mode.
ScopeRows ==
    {Row("t1", 1, <<"a">>, "n", object_type, << >>, data_class, value_type, unit,
         "active", "manual") :
        object_type \in {"", "bogus", "entity", "feature"},
        data_class \in {"", "metric"},
        value_type \in {<< >>, <<"int">>},
        unit \in {"", "kg"}}

InitScopes ==
    /\ rows \in {<<r>> : r \in ScopeRows} \cup {<<r, r>> : r \in ScopeRows}
    /\ mode \in {"import", "publish", "draft", "", "Import"}
    /\ max_ref_depth = DefaultMaxRefDepth

\* Replay: a row of tenant t1 that needs another row (the target of its
\* reference, its parent, a child of its object schema, an item of its
\* array) next to a row that has the needed code, in t1 or in t2.
Dependents ==
    {Feature("t1", <<"a">>, "attribute", RefTo(<<"b">>)),
     Child(Feature("t1", <<"p", DOT, "c">>, "attribute", <<"int">>), <<"p">>),
     Feature("t1", <<"s">>, "object", <<OBJ, "s", CLOSE>>),
     Feature("t1", <<"l">>, "array", <<ARR, "object", CLOSE>>)}

Providers ==
    UNION {{Feature(t, <<"b">>, "attribute", <<"int">>),
            Feature(t, <<"a">>, "attribute", RefTo(<<"b">>)),
            Entity(t, <<"p">>),
            Feature(t, <<"s", DOT, "x">>, "attribute", <<"int">>),
            Feature(t, <<"l", DOT, "item", DOT, "x">>, "attribute", <<"int">>)}
           : t \in Tenants}

ReplayBatches ==
    {<<d, o>> : d \in Dependents, o \in Providers}
        \cup {<<o, d>> : d \in Dependents, o \in Providers}

InitReplay ==
    /\ rows \in ReplayBatches
    /\ mode \in {"import", "publish"}
    /\ max_ref_depth = DefaultMaxRefDepth

\* Recall: short chains, with every kind of end, and one union.
RecallBatches ==
    {Chain(n, end, 0, "none") : n \in 1..3, end \in ChainEnds(2)}
        \cup {<<Feature("t1", <<"x">>, "attribute", <<"int", BAR, "string">>),
                Feature("t1", <<"y">>, "attribute", <<"string">>),
                Feature("t1", <<"a">>, "attribute", <<REF, "x", BAR, REF, "y">>)>>}

InitRecall ==
    /\ rows \in RecallBatches
    /\ mode = "import"
    /\ max_ref_depth \in {1, DefaultMaxRefDepth}

Init ==
    /\ \/ (InitChains \/ InitUnions \/ InitIdentifiers \/ InitPool \/ InitScopes)
            /\ script = "once"
       \/ InitReplay /\ script = "replay"
       \/ InitRecall /\ script = "recall"
    /\ engine = "new"
    /\ rows_by_tenant_code = EmptyDict
    /\ pc = "idle"
    /\ vios = << >>
    /\ call = NoCall
    /\ before = NoRun
    /\ first = NoCall

Next ==
    \/ Construct
    \/ LintBegin
    \/ CheckRequiredAndEnums
    \/ CheckCodeFormat
    \/ CheckUniqueness
    \/ CheckScopeAndFeatureFields
    \/ CheckTypesAndRef
    \/ CheckUnitRules
    \/ CheckIdentifierRules
    \/ CheckHierarchy
    \/ CheckCompleteness
    \/ LintReturn
    \/ \E t \in Tenants, vt \in ResolveInputs : Resolve(t, vt)
    \/ \E rs \in Replays, m \in {"import", "publish"} : NewEngine(rs, m)

Spec == Init /\ [][Next]_vars

\* ------------------------------------------------------------------------
\* Vocabulary of the properties
\* ------------------------------------------------------------------------

IsCall == call.kind = "Call"

\* A direct call whose expression is one reference, ref:<code>.
IsRefCall == IsCall /\ RE_TYPEREF(strip(call.value_type))

Succeeded(ret) == ret.resolved # None /\ ret.vio = None
FailedWith(ret, rule_id) == ret.vio # None /\ ret.vio.rule_id = rule_id

\* The row a tenant's code names is a live feature definition whose
\* value_type is a reference: the chain goes on from it.
IsLink(tenant_id, code) ==
    LET row == IndexGet(rows_by_tenant_code, tenant_id, code)
    IN  /\ row # None
        /\ row.object_type = "feature"
        /\ row.status = "active"
        /\ RE_TYPEREF(row.value_type)

LinkTarget(tenant_id, code) ==
    TypeRefTarget(rows_by_tenant_code[<<tenant_id, code>>].value_type)

InSeq(x, q) == \E i \in 1..Len(q) : q[i] = x

\* The codes of the chain of targets that starts at `code`, up to the point
\* where it returns to one of them; << >> when it never does.
RECURSIVE CyclePath(_, _, _)
CyclePath(tenant_id, code, path) ==
    IF InSeq(code, path) THEN path
    ELSE IF ~IsLink(tenant_id, code) THEN << >>
    ELSE CyclePath(tenant_id, LinkTarget(tenant_id, code), Append(path, code))

\* The codes c1..cn of an acyclic chain of live feature rows that starts at
\* `code` and ends in a row with a non-empty, non-reference value_type;
\* << >> when the chain from `code` is not of that kind.
RECURSIVE ChainPath(_, _, _)
ChainPath(tenant_id, code, path) ==
    LET row == IndexGet(rows_by_tenant_code, tenant_id, code)
    IN  IF InSeq(code, path) THEN << >>
        ELSE IF IsLink(tenant_id, code)
        THEN ChainPath(tenant_id, LinkTarget(tenant_id, code), Append(path, code))
        ELSE IF /\ row # None
                /\ row.object_type = "feature"
                /\ row.status = "active"
                /\ row.value_type # << >>
        THEN Append(path, code)
        ELSE << >>

CallCycle == CyclePath(call.tenant_id, TypeRefTarget(strip(call.value_type)), << >>)
CallChain == ChainPath(call.tenant_id, TypeRefTarget(strip(call.value_type)), << >>)

\* ------------------------------------------------------------------------
\* C1
\* ------------------------------------------------------------------------

\* C1, as claimed: resolving a reference whose chain of targets returns to a
\* code already on the chain fails with TYPE_REF_CYCLE, whatever the
\* max_ref_depth and the length of the cycle.
C1_CycleAlwaysReported ==
    (IsRefCall /\ CallCycle # << >>) => FailedWith(call.ret, "TYPE_REF_CYCLE")

\* C1, amended: such a resolution always fails; with TYPE_REF_CYCLE when the
\* chain has fewer distinct codes than max_ref_depth, and with
\* TYPE_REF_TOO_DEEP when it has max_ref_depth distinct codes or more (the
\* depth check comes first in every iteration).
C1_CycleReportedWithinDepth ==
    (IsRefCall /\ CallCycle # << >>) =>
        IF Len(CallCycle) < max_ref_depth
        THEN FailedWith(call.ret, "TYPE_REF_CYCLE")
        ELSE FailedWith(call.ret, "TYPE_REF_TOO_DEEP")

C1_Witness ==
    /\ IsRefCall
    /\ Len(CallCycle) = 2
    /\ max_ref_depth = 3
    /\ FailedWith(call.ret, "TYPE_REF_CYCLE")

\* ------------------------------------------------------------------------
\* C2
\* ------------------------------------------------------------------------

\* C2: resolving ref:c1 over a chain c1 -> ... -> cn of distinct active
\* feature rows ending in a non-reference expression E succeeds with
\* resolved expression E when n <= max_ref_depth, and fails with
\* TYPE_REF_TOO_DEEP when n = max_ref_depth + 1.
C2_ChainWithinDepthResolves ==
    (IsRefCall /\ CallChain # << >>) =>
        LET n == Len(CallChain)
            E == rows_by_tenant_code[<<call.tenant_id, CallChain[n]>>].value_type
        IN  /\ n <= max_ref_depth =>
                  /\ Succeeded(call.ret)
                  /\ call.ret.resolved.resolved = E
            /\ n = max_ref_depth + 1 => FailedWith(call.ret, "TYPE_REF_TOO_DEEP")

C2_Witness ==
    /\ IsRefCall
    /\ Len(CallChain) = max_ref_depth
    /\ max_ref_depth = 3
    /\ Succeeded(call.ret)
    /\ call.ret.resolved.resolved = <<"int", BAR, "string">>

\* ------------------------------------------------------------------------
\* C3
\* ------------------------------------------------------------------------

\* The terms of an expression: what stands between its "|" signs.
TermsOf(expr) == StripAll(split(expr, BAR))

\* C3, as claimed: a resolved expression holds no type reference, neither as
\* a whole nor as one of its union terms.
C3_ResolvedHasNoReference ==
    (IsCall /\ Succeeded(call.ret)) =>
        /\ ~RE_TYPEREF(call.ret.resolved.resolved)
        /\ \A i \in 1..Len(TermsOf(call.ret.resolved.resolved)) :
               ~RE_TYPEREF(TermsOf(call.ret.resolved.resolved)[i])

\* ------------------------------------------------------------------------
\* Vocabulary of the properties of lint()
\* ------------------------------------------------------------------------

Returned_ == pc = "done"

RowIds == 1..Len(rows)

\* lint() reported rule_id for the row at position i of the batch.
Reported(i, rule_id) ==
    \E k \in 1..Len(vios) : vios[k].row = i /\ vios[k].vio.rule_id = rule_id

TypeRefFailures ==
    {"TYPE_REF_NOT_FOUND", "TYPE_REF_TARGET_NOT_FEATURE", "TYPE_REF_TARGET_NOT_ACTIVE",
     "TYPE_REF_TARGET_NO_TYPE", "TYPE_REF_CYCLE", "TYPE_REF_TOO_DEEP"}

IsFeature(i) == rows[i].object_type = "feature"

\* What the resolver makes of the value_type of row i.
RowResolution(i) == Resolver(rows[i].tenant_id, rows[i].value_type)

\* ------------------------------------------------------------------------
\* C4
\* ------------------------------------------------------------------------

FailsGrammar(i) ==
    /\ IsFeature(i)
    /\ rows[i].value_type # << >>
    /\ ~is_valid_value_type_expr(rows[i].value_type)

\* C4, as claimed: a feature row whose value_type fails the grammar gets
\* TYPE_SYNTAX_INVALID and no TYPE_REF_* violation from any check.
C4_NoResolutionAfterSyntaxError ==
    Returned_ =>
        \A i \in RowIds :
            FailsGrammar(i) =>
                /\ Reported(i, "TYPE_SYNTAX_INVALID")
                /\ \A rule_id \in TypeRefFailures : ~Reported(i, rule_id)

\* ------------------------------------------------------------------------
\* C5
\* ------------------------------------------------------------------------

\* Row i is an object row whose resolved type is json<object:S>.
IsObjectSchemaRow(i) ==
    /\ IsFeature(i)
    /\ rows[i].data_class = "object"
    /\ Succeeded(RowResolution(i))
    /\ RE_OBJECT(RowResolution(i).resolved.resolved)

SchemaOf(i) == ObjectSchemaRef(RowResolution(i).resolved.resolved)

\* C5, as claimed: in publish mode such a row gets
\* COMPLETENESS_OBJECT_CHILDREN_MISSING if and only if no other row of the
\* tenant has a code starting with S + "."; its own code does not count.
C5_ObjectNeedsAnotherRow ==
    (Returned_ /\ mode = "publish") =>
        \A i \in RowIds :
            IsObjectSchemaRow(i) =>
                (Reported(i, "COMPLETENESS_OBJECT_CHILDREN_MISSING")
                    <=> ~\E j \in RowIds \ {i} :
                            /\ rows[j].tenant_id = rows[i].tenant_id
                            /\ startswith(rows[j].code, SchemaOf(i) \o <<DOT>>))

\* ------------------------------------------------------------------------
\* C6
\* ------------------------------------------------------------------------

\* A direct call whose expression is a union (every side of every "|" is
\* non-empty) and whose reference terms all resolved.
IsUnionCall ==
    /\ IsCall
    /\ ~RE_TYPEREF(strip(call.value_type))
    /\ split_union_terms(strip(call.value_type)) # << >>
    /\ Succeeded(call.ret)

CallTerms == split_union_terms(strip(call.value_type))

\* The union B | A for the union A | B cut after its k-th term.
Swapped(terms, k) ==
    join(BAR, SubSeq(terms, k + 1, Len(terms)) \o SubSeq(terms, 1, k))

TermSet(expr) == {TermsOf(expr)[i] : i \in 1..Len(TermsOf(expr))}

\* C6, as claimed: resolving A | B and B | A yields the same resolved
\* expression.
C6_UnionCommutes ==
    IsUnionCall =>
        \A k \in 1..(Len(CallTerms) - 1) :
            LET other == Resolver(call.tenant_id, Swapped(CallTerms, k))
            IN  /\ Succeeded(other)
                /\ other.resolved.resolved = call.ret.resolved.resolved

\* C6, amended: resolving A | B and B | A both succeed and yield resolved
\* expressions with the same set of terms; the terms come in the order of
\* the operands, so the two expressions may differ in the order of their
\* terms (int|string against string|int).
C6_UnionCommutesUpToOrder ==
    IsUnionCall =>
        \A k \in 1..(Len(CallTerms) - 1) :
            LET other == Resolver(call.tenant_id, Swapped(CallTerms, k))
            IN  /\ Succeeded(other)
                /\ TermSet(other.resolved.resolved) = TermSet(call.ret.resolved.resolved)

C6_Witness ==
    /\ IsUnionCall
    /\ call.value_type = <<REF, "x", BAR, REF, "y">>
    /\ call.ret.resolved.resolved = <<"int", BAR, "string">>
    /\ Resolver(call.tenant_id, Swapped(CallTerms, 1)).resolved.resolved
           = <<"string", BAR, "int">>

\* ------------------------------------------------------------------------
\* C7
\* ------------------------------------------------------------------------

\* What a union term is replaced by: the resolved type of a reference term,
\* the term itself otherwise.
Replacement(tenant_id, term) ==
    IF RE_TYPEREF(term) THEN Resolver(tenant_id, term).resolved.resolved ELSE term

CallReplacements == [i \in 1..Len(CallTerms) |-> Replacement(call.tenant_id, CallTerms[i])]

\* A replacement is a well-formed union when it has a "|" and every side of
\* every "|" is non-empty.
IsWellFormedUnion(expr) ==
    Contains(expr, BAR) /\ \A i \in 1..Len(TermsOf(expr)) : TermsOf(expr)[i] # << >>

\* The terms of the replacements, every replacement with a "|" expanded.
ExpandedAll(replacements) ==
    Concat([i \in 1..Len(replacements) |-> TermsOf(replacements[i])])

\* The same, with only the well-formed unions expanded.
ExpandedWellFormed(replacements) ==
    Concat([i \in 1..Len(replacements) |->
        IF IsWellFormedUnion(replacements[i]) THEN TermsOf(replacements[i])
        ELSE <<strip(replacements[i])>>])

\* The positions of q that hold the first occurrence of their element.
FirstPositions(q) == {i \in 1..Len(q) : \A j \in 1..(i - 1) : q[j] # q[i]}

RECURSIVE Pick(_, _, _)
Pick(q, positions, i) ==
    IF i > Len(q) THEN << >>
    ELSE (IF i \in positions THEN <<q[i]>> ELSE << >>) \o Pick(q, positions, i + 1)

FirstOccurrences(q) == Pick(q, FirstPositions(q), 1)

NoRepeat(q) == \A i, j \in 1..Len(q) : q[i] = q[j] => i = j

\* C7, as claimed: the resolved expression of a union is the "|"-join of
\* the first occurrences of the terms of its replacements, every
\* union-valued replacement expanded; no term occurs twice in it.
C7_UnionIsDedupedJoin ==
    IsUnionCall =>
        /\ call.ret.resolved.resolved
               = join(BAR, FirstOccurrences(ExpandedAll(CallReplacements)))
        /\ NoRepeat(TermsOf(call.ret.resolved.resolved))

\* C7, amended: the resolved expression of a union is the "|"-join of the
\* first occurrences of the terms of its replacements, where a replacement
\* is expanded only if it is a well-formed union (no side of a "|" empty)
\* and is kept whole otherwise; no term occurs twice in it when every
\* replacement with a "|" is a well-formed union.
C7_UnionIsDedupedJoinOfWellFormed ==
    IsUnionCall =>
        /\ call.ret.resolved.resolved
               = join(BAR, FirstOccurrences(ExpandedWellFormed(CallReplacements)))
        /\ (\A i \in 1..Len(CallReplacements) :
                Contains(CallReplacements[i], BAR) => IsWellFormedUnion(CallReplacements[i]))
               => NoRepeat(TermsOf(call.ret.resolved.resolved))

C7_Witness ==
    /\ IsUnionCall
    /\ call.value_type = <<REF, "x", WS, BAR, WS, REF, "y">>
    /\ CallReplacements = << <<"string", WS, BAR, WS, "int">>, <<"int", BAR, "a">> >>
    /\ call.ret.resolved.resolved = <<"string", BAR, "int", BAR, "a">>

\* ------------------------------------------------------------------------
\* C8
\* ------------------------------------------------------------------------

\* The codes the walk of a single-reference call visited (looked up).
Visited == call.ret.walks[1]

VisitedRow(i) == IndexGet(rows_by_tenant_code, call.tenant_id, Visited[i])

\* The row a visited code names may be a link or the end of a chain.
Sound(row) ==
    /\ row # None
    /\ row.object_type = "feature"
    /\ row.status = "active"
    /\ row.value_type # << >>

\* The failure a row that is not sound calls for, by precedence.
ExpectedFailure(row) ==
    IF row = None THEN "TYPE_REF_NOT_FOUND"
    ELSE IF row.object_type # "feature" THEN "TYPE_REF_TARGET_NOT_FEATURE"
    ELSE IF row.status # "active" THEN "TYPE_REF_TARGET_NOT_ACTIVE"
    ELSE "TYPE_REF_TARGET_NO_TYPE"

IsResolvedIdentifier(i) ==
    /\ IsFeature(i)
    /\ rows[i].data_class = "identifier"
    /\ Succeeded(RowResolution(i))

IdentifierTermSets == {{<<"int">>}, {<<"string">>}, {<<"int">>, <<"string">>}}

\* C9: an identifier row whose value_type resolves gets
\* IDENTIFIER_VALUE_TYPE if and only if the set of the union terms of the
\* resolved expression is none of {int}, {string}, {int, string}.
C9_IdentifierTypeByTermSet ==
    Returned_ =>
        \A i \in RowIds :
            IsResolvedIdentifier(i) =>
                (Reported(i, "IDENTIFIER_VALUE_TYPE")
                    <=> TermSet(RowResolution(i).resolved.resolved) \notin IdentifierTermSets)

C9_Witness ==
    /\ Returned_
    /\ \E i \in RowIds :
           /\ IsResolvedIdentifier(i)
           /\ rows[i].value_type = RefTo(<<"y">>)
           /\ RowResolution(i).resolved.resolved = <<"string", BAR, "int">>
           /\ ~Reported(i, "IDENTIFIER_VALUE_TYPE")

\* ------------------------------------------------------------------------
\* C10
\* ------------------------------------------------------------------------

HasParentCode(i) == rows[i].parent_code # << >>

\* C10, as claimed: a row with a parent_code gets HIERARCHY_PARENT_MISSING
\* if and only if no row of the batch has its tenant_id and code =
\* parent_code; when there is one, it gets HIERARCHY_PARENT_PREFIX if and
\* only if its code does not start with parent_code + "."; a row without
\* parent_code gets neither.
C10_ParentInBatch ==
    Returned_ =>
        \A i \in RowIds :
            LET inBatch == \E j \in RowIds : /\ rows[j].tenant_id = rows[i].tenant_id
                                             /\ rows[j].code = rows[i].parent_code
            IN  IF HasParentCode(i)
                THEN /\ Reported(i, "HIERARCHY_PARENT_MISSING") <=> ~inBatch
                     /\ inBatch =>
                            (Reported(i, "HIERARCHY_PARENT_PREFIX")
                                <=> ~startswith(rows[i].code, rows[i].parent_code \o <<DOT>>))
                ELSE /\ ~Reported(i, "HIERARCHY_PARENT_MISSING")
                     /\ ~Reported(i, "HIERARCHY_PARENT_PREFIX")

\* C10, amended: the same, for the rows of the batch that have a tenant_id:
\* a row with a parent_code gets HIERARCHY_PARENT_MISSING if and only if its
\* tenant_id is empty or no row of the batch has its tenant_id and code =
\* parent_code (rows without tenant_id are not indexed, so such a row never
\* has a parent).
C10_ParentInTenant ==
    Returned_ =>
        \A i \in RowIds :
            LET inTenant == /\ rows[i].tenant_id # ""
                            /\ \E j \in RowIds : /\ rows[j].tenant_id = rows[i].tenant_id
                                                 /\ rows[j].code = rows[i].parent_code
            IN  IF HasParentCode(i)
                THEN /\ Reported(i, "HIERARCHY_PARENT_MISSING") <=> ~inTenant
                     /\ inTenant =>
                            (Reported(i, "HIERARCHY_PARENT_PREFIX")
                                <=> ~startswith(rows[i].code, rows[i].parent_code \o <<DOT>>))
                ELSE /\ ~Reported(i, "HIERARCHY_PARENT_MISSING")
                     /\ ~Reported(i, "HIERARCHY_PARENT_PREFIX")

C10_Witness ==
    /\ Returned_
    /\ \E i, j \in RowIds :
           /\ HasParentCode(i)
           /\ rows[j].tenant_id = "t1"
           /\ rows[i].tenant_id = "t1"
           /\ rows[j].code = rows[i].parent_code
           /\ Reported(i, "HIERARCHY_PARENT_PREFIX")
           /\ ~Reported(i, "HIERARCHY_PARENT_MISSING")

\* ------------------------------------------------------------------------
\* C11
\* ------------------------------------------------------------------------

\* The checks in the order lint() runs them.
CheckOrder ==
    <<"required_and_enums", "code_format", "uniqueness", "scope_and_feature_fields",
      "types_and_ref", "unit_rules", "identifier_rules", "hierarchy", "completeness">>

Position(check) == CHOOSE k \in 1..Len(CheckOrder) : CheckOrder[k] = check

\* An earlier run over the same batch in the same mode has returned (on this
\* engine or on another one).
SameRunBefore == before.kind = "Run" /\ before.rows = rows /\ before.mode = mode

\* C11: the list lint() returns is the concatenation of the violations of
\* the checks in the fixed sequence (completeness last, in publish mode
\* only); it runs through the checks in that sequence and, inside one check,
\* through the rows in input order; a second run over the same batch in the
\* same mode returns the same list.
C11_FixedSequenceSameList ==
    Returned_ =>
        /\ vios = Concat(<<check_required_and_enums, check_code_format, check_uniqueness,
                           check_scope_and_feature_fields, check_types_and_ref,
                           check_unit_rules, check_identifier_rules, check_hierarchy>>)
                      \o (IF mode = "publish" THEN check_completeness ELSE << >>)
        /\ \A p, q \in 1..Len(vios) :
               p < q =>
                   \/ Position(vios[p].check) < Position(vios[q].check)
                   \/ vios[p].check = vios[q].check /\ vios[p].row <= vios[q].row
        /\ SameRunBefore => vios = before.vios

C11_Witness ==
    /\ Returned_
    /\ SameRunBefore
    /\ \E p, q \in 1..Len(vios) :
           p < q /\ vios[p].check = vios[q].check /\ vios[p].row < vios[q].row
    /\ \E p, q \in 1..Len(vios) : vios[p].check # vios[q].check

\* ------------------------------------------------------------------------
\* C12
\* ------------------------------------------------------------------------

CompletenessRules ==
    {"COMPLETENESS_OBJECT_CHILDREN_MISSING", "COMPLETENESS_ARRAY_OBJECT_ITEMS_MISSING"}

\* An earlier run over the same batch in the other mode has returned.
OtherModeBefore == before.kind = "Run" /\ before.rows = rows /\ before.mode # mode

ImportList == IF mode = "import" THEN vios ELSE before.vios
PublishList == IF mode = "publish" THEN vios ELSE before.vios

\* C12: import mode never reports a COMPLETENESS_* violation (nor anything
\* else from the completeness check), and the list of publish mode over a
\* batch is the list of import mode over it, unchanged and in the same
\* order, followed by the violations of the completeness check.
C12_PublishIsImportThenCompleteness ==
    Returned_ =>
        /\ mode = "import" =>
               \A k \in 1..Len(vios) :
                   /\ vios[k].vio.rule_id \notin CompletenessRules
                   /\ vios[k].check # "completeness"
        /\ OtherModeBefore =>
               /\ Len(ImportList) <= Len(PublishList)
               /\ SubSeq(PublishList, 1, Len(ImportList)) = ImportList
               /\ SubSeq(PublishList, Len(ImportList) + 1, Len(PublishList))
                      = check_completeness

C12_Witness ==
    /\ Returned_
    /\ OtherModeBefore
    /\ mode = "publish"
    /\ Len(before.vios) >= 1
    /\ Len(vios) > Len(before.vios)
    /\ vios[Len(vios)].vio.rule_id \in CompletenessRules

\* ------------------------------------------------------------------------
\* C13
\* ------------------------------------------------------------------------

\* How many SCOPE_NON_FEATURE_HAS_TYPE violations lint() reported for the
\* row at position i.
ScopeViolations(i) ==
    Cardinality({k \in 1..Len(vios) :
                    /\ vios[k].row = i
                    /\ vios[k].vio.rule_id = "SCOPE_NON_FEATURE_HAS_TYPE"})

HasTypeField(i) ==
    rows[i].data_class # "" \/ rows[i].value_type # << >> \/ rows[i].unit # ""

\* C13: a row whose object_type is not feature (empty and invalid values
\* included) gets exactly one SCOPE_NON_FEATURE_HAS_TYPE violation if one of
\* data_class, value_type, unit is non-empty, and none if all three are empty.
C13_OneScopeViolationPerNonFeature ==
    Returned_ =>
        \A i \in RowIds :
            rows[i].object_type # "feature" =>
                ScopeViolations(i) = IF HasTypeField(i) THEN 1 ELSE 0

C13_Witness ==
    /\ Returned_
    /\ Len(rows) = 2
    /\ rows[1].object_type = "" /\ rows[1].unit = "kg" /\ rows[1].data_class = ""
    /\ rows[1].value_type = << >>
    /\ rows[2] = rows[1]
    /\ ScopeViolations(1) = 1
    /\ ScopeViolations(2) = 1

\* ------------------------------------------------------------------------
\* C14
\* ------------------------------------------------------------------------

ValidMode == mode \in {"import", "publish"}

\* C14: once the constructor has run, it has failed (ValueError) if and only
\* if mode is neither import nor publish, and has succeeded otherwise,
\* whatever the rows; an engine that failed has built no index, has evaluated
\* no row and holds no violation.
C14_ConstructionFailsOnModeOnly ==
    /\ engine = "ValueError" <=> (engine # "new" /\ ~ValidMode)
    /\ engine = "ready" <=> (engine # "new" /\ ValidMode)
    /\ engine = "ValueError" =>
           /\ rows_by_tenant_code = EmptyDict
           /\ pc = "idle"
           /\ vios = << >>
           /\ call = NoCall

C14_Witness ==
    /\ engine = "ValueError"
    /\ mode = "Import"
    /\ Len(rows) = 2
    /\ rows[1].object_type = "bogus"

\* ------------------------------------------------------------------------
\* C15
\* ------------------------------------------------------------------------

\* The check named `check` reported rule_id for the row at position i.
ReportedBy(check, i, rule_id) ==
    \E k \in 1..Len(vios) :
        vios[k].check = check /\ vios[k].row = i /\ vios[k].vio.rule_id = rule_id

\* Row i is a feature whose value_type passes the grammar and fails to resolve.
FailsResolution(i) ==
    IsFeature(i) /\ ~FailsGrammar(i) /\ RowResolution(i).vio # None

\* The statements of lint() after the first; each can run as soon as lint()
\* stands at it.
LintStatements == {CheckOrder[k] : k \in 1..Len(CheckOrder)} \cup {"return"}

\* C15: lint() never stops half-way (between its first statement and its
\* return it always stands at a statement that can run), and the list it
\* returns has, for every row wherever it stands in the batch, the syntax
\* error or the resolver failure of that row from the type check, and what
\* the later checks (unit, hierarchy, completeness) find on that row.
C15_BadRowEndsOnlyItself ==
    /\ pc \notin {"idle", "done"} =>
           /\ engine = "ready"
           /\ pc \in LintStatements
           /\ pc = "completeness" => mode = "publish"
    /\ Returned_ =>
           \A j \in RowIds :
               /\ FailsGrammar(j) => ReportedBy("types_and_ref", j, "TYPE_SYNTAX_INVALID")
               /\ FailsResolution(j) =>
                      ReportedBy("types_and_ref", j, RowResolution(j).vio.rule_id)
               /\ (IsFeature(j) /\ rows[j].unit # "" /\ rows[j].data_class # "metric")
                      => ReportedBy("unit_rules", j, "UNIT_NOT_ALLOWED")
               /\ (HasParentCode(j)
                      /\ IndexGet(rows_by_tenant_code, rows[j].tenant_id,
                                  rows[j].parent_code) = None)
                      => ReportedBy("hierarchy", j, "HIERARCHY_PARENT_MISSING")
               /\ (mode = "publish" /\ IsFeature(j) /\ RowResolution(j).vio # None
                      /\ rows[j].data_class \in {"object", "array"})
                      => ReportedBy("completeness", j, RowResolution(j).vio.rule_id)

C15_Witness ==
    /\ Returned_
    /\ Len(rows) = 2
    /\ FailsGrammar(1)
    /\ FailsResolution(2)
    /\ ReportedBy("types_and_ref", 1, "TYPE_SYNTAX_INVALID")
    /\ ReportedBy("unit_rules", 1, "UNIT_NOT_ALLOWED")
    /\ ReportedBy("types_and_ref", 2, "TYPE_REF_NOT_FOUND")
    /\ ReportedBy("completeness", 2, "TYPE_REF_NOT_FOUND")

\* ------------------------------------------------------------------------
\* C16
\* ------------------------------------------------------------------------

\* No walk of a single reference made by the call looked up more than
\* max_ref_depth rows.
WalksWithinDepth ==
    \A w \in 1..Len(call.ret.walks) : Len(call.ret.walks[w]) <= max_ref_depth

\* The call returned exactly one of a resolved expression and a failure.
ResultOrFailure == (call.ret.resolved # None) # (call.ret.vio # None)

IsBlank(expr) == strip(expr) = << >>

\* C16, as claimed: every resolver call returns, with either a resolved
\* expression or a failure, after walks of at most max_ref_depth lookups.
C16_AlwaysResultOrFailure ==
    IsCall => (ResultOrFailure /\ WalksWithinDepth)

\* C16, amended: every resolver call returns after walks of at most
\* max_ref_depth lookups each; with exactly one of a resolved expression and
\* a failure when the expression is not empty, and with neither of them
\* (and without any lookup) when it is empty once trimmed.
C16_ReturnsWithinDepth ==
    IsCall =>
        /\ WalksWithinDepth
        /\ IF IsBlank(call.value_type)
           THEN /\ call.ret.resolved = None
                /\ call.ret.vio = None
                /\ call.ret.walks = << >>
           ELSE ResultOrFailure

C16_Witness ==
    /\ IsRefCall
    /\ CallCycle # << >>
    /\ max_ref_depth = 2
    /\ FailedWith(call.ret, "TYPE_REF_TOO_DEEP")
    /\ Len(call.ret.walks[1]) = 2

\* ------------------------------------------------------------------------
\* C17
\* ------------------------------------------------------------------------

\* The caller has made a first resolver call, and the last call it made was
\* for the same (tenant_id, value_type).
SameCallAgain ==
    /\ first.kind = "Call"
    /\ IsCall
    /\ call.tenant_id = first.tenant_id
    /\ call.value_type = first.value_type

\* C17: from the first resolver call on, the rows and the index are what
\* they were before that call, and every later call for the same
\* (tenant_id, value_type), whatever was resolved or linted in between,
\* returns what the first call returned.
C17_ResolveRepeatable ==
    first.kind = "Call" =>
        /\ rows = first.rows
        /\ rows_by_tenant_code = first.index
        /\ SameCallAgain => call.ret = first.ret

C17_Witness ==
    /\ SameCallAgain
    /\ first.other
    /\ first.linted
    /\ IsRefCall
    /\ Succeeded(call.ret)
    /\ Len(call.ret.walks[1]) = 2

\* ------------------------------------------------------------------------
\* C18
\* ------------------------------------------------------------------------

\* The violations of a list, without the labels of check and row.
ViolationsOf(list) == [k \in 1..Len(list) |-> list[k].vio]

\* The violations that the earlier run reported for its rows of a tenant.
TenantPartBefore(tenant_id) ==
    ViolationsOf(SelectSeq(before.vios,
                           LAMBDA e : before.rows[e.row].tenant_id = tenant_id))

\* Some row of the batch has this tenant_id and this code.
InTenant(tenant_id, code) ==
    \E j \in RowIds : rows[j].tenant_id = tenant_id /\ rows[j].code = code

\* C18: the list returned for a batch made of the rows of one tenant of an
\* earlier batch is the part of the earlier list (same mode) that is about
\* the rows of that tenant; and in every returned list a reference, a
\* parent_code or an object schema with no row of the needed code in the
\* row's own tenant is reported, whatever the other tenants hold.
C18_TenantIsolation ==
    Returned_ =>
        /\ (before.kind = "Run" /\ before.mode = mode) =>
               \A i \in 1..Len(before.rows) :
                   rows = OfTenant(before.rows, before.rows[i].tenant_id) =>
                       ViolationsOf(vios) = TenantPartBefore(before.rows[i].tenant_id)
        /\ \A i \in RowIds :
               /\ (IsFeature(i) /\ RE_TYPEREF(rows[i].value_type)
                      /\ ~InTenant(rows[i].tenant_id, TypeRefTarget(rows[i].value_type)))
                      => ReportedBy("types_and_ref", i, "TYPE_REF_NOT_FOUND")
               /\ (HasParentCode(i) /\ ~InTenant(rows[i].tenant_id, rows[i].parent_code))
                      => ReportedBy("hierarchy", i, "HIERARCHY_PARENT_MISSING")
               /\ (mode = "publish" /\ IsFeature(i) /\ rows[i].data_class = "object"
                      /\ RE_OBJECT(rows[i].value_type)
                      /\ ~\E j \in RowIds :
                             /\ rows[j].tenant_id = rows[i].tenant_id
                             /\ startswith(rows[j].code,
                                           ObjectSchemaRef(rows[i].value_type) \o <<DOT>>))
                      => ReportedBy("completeness", i,
                                    "COMPLETENESS_OBJECT_CHILDREN_MISSING")

C18_Witness ==
    /\ Returned_
    /\ before.kind = "Run"
    /\ before.mode = mode
    /\ Len(before.rows) = 2
    /\ Len(rows) = 1
    /\ rows = OfTenant(before.rows, "t1")
    /\ RE_TYPEREF(rows[1].value_type)
    /\ \E j \in 1..Len(before.rows) :
           /\ before.rows[j].tenant_id = "t2"
           /\ before.rows[j].code = TypeRefTarget(rows[1].value_type)
    /\ ReportedBy("types_and_ref", 1, "TYPE_REF_NOT_FOUND")
    /\ TenantPartBefore("t1") = ViolationsOf(vios)

====
